---- MODULE Spec2Model ----
(***************************************************************************)
(* Model of src/src/App.tsx: the bill splitter's state (participants,      *)
(* transactions, the draft transaction, the edit target, the participant   *)
(* name field, the "participants" key of localStorage) and its handlers.   *)
(*                                                                         *)
(* Strings are sequences of one-character strings, so that trim,           *)
(* parseFloat, toFixed(2), Number.prototype.toString and JSON.stringify    *)
(* are computed character by character.  Numbers are exact hundredths      *)
(* (v = 100 * value) or NaN; binary floating point error is not modelled.  *)
(*                                                                         *)
(* Every handler runs to completion between two renders, so the closure    *)
(* variables it reads (participants, currentTransaction,                   *)
(* editingTransactionId) and the `prev` argument of its state updaters are *)
(* all the values of the state before the action.                          *)
(*                                                                         *)
(* now is the last value Date.now() returned: the clock never runs         *)
(* backwards, and two readings in the same millisecond are equal.  lastOp  *)
(* records the handler that ran last and its argument.                     *)
(***************************************************************************)
EXTENDS Integers, Sequences, FiniteSets, TLC

VARIABLES participants, transactions, newParticipant, currentTransaction,
          editingTransactionId, localStorage, now, lastOp, steps

vars == <<participants, transactions, newParticipant, currentTransaction,
          editingTransactionId, localStorage, now, lastOp, steps>>

(***************************** bounds **************************************)
MaxParticipants == 2
MaxTransactions == 2
MaxTime == 2
MaxSteps == 6
MaxStored == 3

(***************************** strings *************************************)
Digits == <<"0", "1", "2", "3", "4", "5", "6", "7", "8", "9">>

IsDigit(c) == \E i \in 1..10 : Digits[i] = c

DigitVal(c) == (CHOOSE i \in 1..10 : Digits[i] = c) - 1

IsWhiteSpace(c) == c = " "

EmptyString == << >>

\* the value null (of editingTransactionId and of localStorage.getItem)
Null == <<"null">>

\* JavaScript truthiness of a string-or-null value
Truthy(s) == s # Null /\ s # EmptyString

RECURSIVE TrimStart(_)
TrimStart(s) ==
    IF s # << >> /\ IsWhiteSpace(Head(s)) THEN TrimStart(Tail(s)) ELSE s

RECURSIVE TrimEnd(_)
TrimEnd(s) ==
    IF s # << >> /\ IsWhiteSpace(s[Len(s)])
    THEN TrimEnd(SubSeq(s, 1, Len(s) - 1))
    ELSE s

\* String.prototype.trim
Trim(s) == TrimEnd(TrimStart(s))

\* Number.prototype.toString of a non-negative integer
RECURSIVE NumberToString(_)
NumberToString(n) ==
    IF n < 10 THEN <<Digits[n + 1]>>
    ELSE NumberToString(n \div 10) \o <<Digits[(n % 10) + 1]>>

(***************************** numbers *************************************)
NaN == [nan |-> TRUE, v |-> 0]

Num(hundredths) == [nan |-> FALSE, v |-> hundredths]

\* the longest prefix of s made of digits
RECURSIVE DigitPrefix(_)
DigitPrefix(s) ==
    IF s # << >> /\ IsDigit(Head(s)) THEN <<Head(s)>> \o DigitPrefix(Tail(s))
    ELSE << >>

RECURSIVE DigitsValue(_)
DigitsValue(ds) ==
    IF ds = << >> THEN 0
    ELSE 10 * DigitsValue(SubSeq(ds, 1, Len(ds) - 1)) + DigitVal(ds[Len(ds)])

\* the fraction digits as hundredths (the inputs carry at most two of them)
FractionValue(fs) ==
    IF Len(fs) = 0 THEN 0
    ELSE IF Len(fs) = 1 THEN 10 * DigitVal(fs[1])
    ELSE 10 * DigitVal(fs[1]) + DigitVal(fs[2])

\* parseFloat: leading white space is skipped, then the longest prefix that
\* is a decimal literal [+-] digits [. digits] is read; NaN if there is none.
\* (Exponents and "Infinity" are outside the character set of the inputs.)
parseFloat(str) ==
    LET s0 == TrimStart(str)
        signed == s0 # << >> /\ Head(s0) \in {"+", "-"}
        neg == s0 # << >> /\ Head(s0) = "-"
        s1 == IF signed THEN Tail(s0) ELSE s0
        ip == DigitPrefix(s1)
        s2 == SubSeq(s1, Len(ip) + 1, Len(s1))
        fp == IF s2 # << >> /\ Head(s2) = "." THEN DigitPrefix(Tail(s2)) ELSE << >>
        mag == 100 * DigitsValue(ip) + FractionValue(fp)
    IN  IF ip = << >> /\ fp = << >> THEN NaN
        ELSE Num(IF neg THEN 0 - mag ELSE mag)

\* a toFixed that cuts the quotient off after two digits instead of rounding
DivideToFixed2_Truncates(x, count) ==
    IF x.nan THEN <<"N", "a", "N">>
    ELSE LET mag == IF x.v < 0 THEN 0 - x.v ELSE x.v
             n == mag \div count
             frac == n % 100
         IN  (IF x.v < 0 THEN <<"-">> ELSE << >>)
             \o NumberToString(n \div 100) \o <<".">>
             \o <<Digits[(frac \div 10) + 1], Digits[(frac % 10) + 1]>>

\* (x / count).toFixed(2) for count >= 1: NaN prints as "NaN"; otherwise the
\* quotient is rounded to the nearest hundredth (the larger one on a tie)
\* and printed with a sign, the integer part, a point and two digits.
DivideToFixed2(x, count) ==
    IF x.nan THEN <<"N", "a", "N">>
    ELSE LET mag == IF x.v < 0 THEN 0 - x.v ELSE x.v
             n == (2 * mag + count) \div (2 * count)
             frac == n % 100
         IN  (IF x.v < 0 THEN <<"-">> ELSE << >>)
             \o NumberToString(n \div 100) \o <<".">>
             \o <<Digits[(frac \div 10) + 1], Digits[(frac % 10) + 1]>>

\* `x || 0` on a number: NaN (and 0) give 0
OrZero(x) == IF x.nan THEN Num(0) ELSE x

\* x + y and x - y; NaN is contagious
Plus(x, y) == IF x.nan \/ y.nan THEN NaN ELSE Num(x.v + y.v)

Minus(x, y) == IF x.nan \/ y.nan THEN NaN ELSE Num(x.v - y.v)

(***************************** JSON ****************************************)
\* a quote or a backslash inside a string is written after a backslash
RECURSIVE Escape(_)
Escape(s) ==
    IF s = << >> THEN << >>
    ELSE (IF Head(s) \in {"\"", "\\"} THEN <<"\\", Head(s)>> ELSE <<Head(s)>>)
         \o Escape(Tail(s))

Quoted(s) == <<"\"">> \o Escape(s) \o <<"\"">>

\* one participant object, keys in the order they were created with
StringifyParticipant(p) ==
    <<"{">> \o Quoted(<<"n", "a", "m", "e">>) \o <<":">> \o Quoted(p.name)
    \o <<",">> \o Quoted(<<"i", "d">>) \o <<":">> \o Quoted(p.id) \o <<"}">>

RECURSIVE StringifyItems(_)
StringifyItems(ps) ==
    IF ps = << >> THEN << >>
    ELSE IF Len(ps) = 1 THEN StringifyParticipant(ps[1])
    ELSE StringifyParticipant(ps[1]) \o <<",">> \o StringifyItems(Tail(ps))

\* JSON.stringify(participants); the names of the model hold no character
\* that JSON escapes
JSONstringify(ps) == <<"[">> \o StringifyItems(ps) \o <<"]">>


\* the characters of a JSON string up to its closing quote, s starting
\* after the opening one: the value read and the text after the string
RECURSIVE ScanString(_, _)
ScanString(s, acc) ==
    IF Head(s) = "\"" THEN [val |-> acc, rest |-> Tail(s)]
    ELSE IF Head(s) = "\\" THEN ScanString(Tail(Tail(s)), Append(acc, s[2]))
    ELSE ScanString(Tail(s), Append(acc, Head(s)))

\* a JSON string at the head of s: its value and the text after it
ReadString(s) == ScanString(Tail(s), << >>)

\* the members of an object, s starting at its first key
RECURSIVE ReadMembers(_, _)
ReadMembers(s, acc) ==
    LET key == ReadString(s)
        value == ReadString(Tail(key.rest))
        obj == [k \in DOMAIN acc \cup {key.val} |->
                    IF k = key.val THEN value.val ELSE acc[k]]
    IN  IF Head(value.rest) = ","
        THEN ReadMembers(Tail(value.rest), obj)
        ELSE [val |-> obj, rest |-> Tail(value.rest)]

\* the items of an array, s starting at its first item or at "]"
RECURSIVE ReadItems(_, _)
ReadItems(s, acc) ==
    IF Head(s) = "]" THEN acc
    ELSE LET item == ReadMembers(Tail(s), [k \in {} |-> << >>])
             p == [id |-> item.val[<<"i", "d">>],
                   name |-> item.val[<<"n", "a", "m", "e">>]]
         IN  IF Head(item.rest) = ","
             THEN ReadItems(Tail(item.rest), Append(acc, p))
             ELSE ReadItems(item.rest, Append(acc, p))

\* JSON.parse of a stored participant list
JSONparse(text) == ReadItems(Tail(text), << >>)

(***************************** inputs **************************************)
\* what the user types into the participant name field
NameInputs == {<<" ">>, <<" ", "a">>}

\* what the user types into the title field
TitleInputs == {<<"t">>}

\* what the amount field (type="number") hands to its onChange
AmountInputs == {EmptyString, <<"1", "0", "0">>}

\* what a contribution field (type="number") hands to its onChange
ContributionInputs == {EmptyString, <<"5", "0">>}

\* what the key "participants" holds when the application starts
StoredValues ==
    {Null, JSONstringify(<< >>),
     JSONstringify(<<[name |-> <<"z", "\"">>, id |-> <<"0">>]>>)}

(***************************** state ***************************************)
EmptyObject == [k \in {} |-> EmptyString]

\* the draft the component is constructed with
InitialTransaction ==
    [id |-> EmptyString, title |-> EmptyString, amount |-> EmptyString,
     payer |-> EmptyString, contributions |-> EmptyObject,
     isSplitBill |-> FALSE]

ParticipantIds(ps) == {ps[i].id : i \in 1..Len(ps)}

TransactionIds(ts) == {ts[i].id : i \in 1..Len(ts)}

\* { ...obj, [key]: value }
Put(obj, key, value) ==
    [k \in DOMAIN obj \cup {key} |-> IF k = key THEN value ELSE obj[k]]

\* const { [key]: removed, ...rest } = obj
Omit(obj, key) == [k \in DOMAIN obj \ {key} |-> obj[k]]

\* list.filter(x => x.id !== id)
RECURSIVE FilterOutId(_, _)
FilterOutId(list, id) ==
    IF list = << >> THEN << >>
    ELSE IF Head(list).id # id
         THEN <<Head(list)>> \o FilterOutId(Tail(list), id)
         ELSE FilterOutId(Tail(list), id)

\* lastOp: the handler, its argument and (for updateCurrentTransaction) its field
Op(name, arg) == [op |-> name, field |-> "", arg |-> arg]

\* the initial participants: the stored list if there is one
LoadParticipants(storedParticipants) ==
    IF Truthy(storedParticipants) THEN JSONparse(storedParticipants) ELSE << >>

Init ==
    \E stored \in StoredValues :
        /\ participants = LoadParticipants(stored)
        /\ localStorage = JSONstringify(participants)
        /\ transactions = << >>
        /\ newParticipant = EmptyString
        /\ currentTransaction = InitialTransaction
        /\ editingTransactionId = Null
        /\ now = 1
        /\ lastOp = Op("init", EmptyString)
        /\ steps = 0

(***************************** handlers ************************************)
\* onChange of the participant name field
setNewParticipant(value) ==
    /\ value # newParticipant
    /\ newParticipant' = value
    /\ lastOp' = Op("setNewParticipant", value)
    /\ UNCHANGED <<participants, transactions, currentTransaction,
                   editingTransactionId, localStorage, now>>

\* the contribution the draft gets for a participant added now
NewContribution(prev, count) ==
    IF prev.isSplitBill
    THEN DivideToFixed2(parseFloat(prev.amount), count + 1)
    ELSE EmptyString

\* an add that stores the list of the render it ran in, the new
\* participant not yet in it
addParticipant_StoresOldList ==
    /\ lastOp' = Op("addParticipant", newParticipant)
    /\ IF Trim(newParticipant) # EmptyString
       THEN /\ Len(participants) < MaxParticipants
            /\ \E t \in now..MaxTime :
                 LET newParticipantObj ==
                         [name |-> Trim(newParticipant), id |-> NumberToString(t)]
                 IN  /\ now' = t
                     /\ participants' = Append(participants, newParticipantObj)
                     /\ newParticipant' = EmptyString
                     /\ currentTransaction' =
                          [currentTransaction EXCEPT !.contributions =
                              Put(@, newParticipantObj.id,
                                  NewContribution(currentTransaction,
                                                  Len(participants)))]
            /\ localStorage' = JSONstringify(participants)
            /\ UNCHANGED <<transactions, editingTransactionId>>
       ELSE UNCHANGED <<participants, transactions, newParticipant,
                        currentTransaction, editingTransactionId,
                        localStorage, now>>

addParticipant ==
    /\ lastOp' = Op("addParticipant", newParticipant)
    /\ IF Trim(newParticipant) # EmptyString
       THEN /\ Len(participants) < MaxParticipants
            /\ \E t \in now..MaxTime :
                 LET newParticipantObj ==
                         [name |-> Trim(newParticipant), id |-> NumberToString(t)]
                 IN  /\ now' = t
                     /\ participants' = Append(participants, newParticipantObj)
                     /\ newParticipant' = EmptyString
                     /\ currentTransaction' =
                          [currentTransaction EXCEPT !.contributions =
                              Put(@, newParticipantObj.id,
                                  NewContribution(currentTransaction,
                                                  Len(participants)))]
            /\ localStorage' = JSONstringify(participants')
            /\ UNCHANGED <<transactions, editingTransactionId>>
       ELSE UNCHANGED <<participants, transactions, newParticipant,
                        currentTransaction, editingTransactionId,
                        localStorage, now>>

\* the equal split of amount over the participants of the current render
recalculateSplitBill(amount) ==
    LET participantCount == Len(participants)
    IN  IF participantCount = 0 THEN EmptyObject
        ELSE [k \in ParticipantIds(participants) |->
                 DivideToFixed2(parseFloat(amount), participantCount)]

\* a removal that also drops the id from the submitted transactions
removeParticipant_Cascading(id) ==
    /\ id \in ParticipantIds(participants)
    /\ participants' = FilterOutId(participants, id)
    /\ currentTransaction' =
         [currentTransaction EXCEPT !.contributions =
             IF currentTransaction.isSplitBill
             THEN recalculateSplitBill(currentTransaction.amount)
             ELSE Omit(@, id)]
    /\ transactions' =
         [i \in 1..Len(transactions) |->
             [transactions[i] EXCEPT !.contributions = Omit(@, id)]]
    /\ localStorage' = JSONstringify(participants')
    /\ lastOp' = Op("removeParticipant", id)
    /\ UNCHANGED <<newParticipant, editingTransactionId, now>>

\* a removal that also clears a draft payer pointing at the removed id
removeParticipant_ClearsPayer(id) ==
    /\ id \in ParticipantIds(participants)
    /\ participants' = FilterOutId(participants, id)
    /\ currentTransaction' =
         [currentTransaction EXCEPT
             !.contributions =
                 IF currentTransaction.isSplitBill
                 THEN recalculateSplitBill(currentTransaction.amount)
                 ELSE Omit(@, id),
             !.payer = IF @ = id THEN EmptyString ELSE @]
    /\ localStorage' = JSONstringify(participants')
    /\ lastOp' = Op("removeParticipant", id)
    /\ UNCHANGED <<transactions, newParticipant, editingTransactionId, now>>

removeParticipant(id) ==
    /\ id \in ParticipantIds(participants)
    /\ participants' = FilterOutId(participants, id)
    /\ currentTransaction' =
         [currentTransaction EXCEPT !.contributions =
             IF currentTransaction.isSplitBill
             THEN recalculateSplitBill(currentTransaction.amount)
             ELSE Omit(@, id)]
    /\ localStorage' = JSONstringify(participants')
    /\ lastOp' = Op("removeParticipant", id)
    /\ UNCHANGED <<transactions, newParticipant, editingTransactionId, now>>

\* the values the form can hand to updateCurrentTransaction for a field
FieldInputs(field) ==
    IF field = "title" THEN TitleInputs
    ELSE IF field = "amount" THEN AmountInputs
    ELSE ParticipantIds(participants)

updateCurrentTransaction(field, value) ==
    /\ value # currentTransaction[field]
    /\ currentTransaction' =
         [[currentTransaction EXCEPT ![field] = value]
             EXCEPT !.contributions =
                 IF field = "amount" /\ currentTransaction.isSplitBill
                 THEN recalculateSplitBill(value)
                 ELSE @]
    /\ lastOp' = [op |-> "updateCurrentTransaction", field |-> field, arg |-> value]
    /\ UNCHANGED <<participants, transactions, newParticipant,
                   editingTransactionId, localStorage, now>>

\* the contribution fields are disabled while the draft is in equal split
updateContribution(participantId, value) ==
    /\ ~currentTransaction.isSplitBill
    /\ participantId \in ParticipantIds(participants)
    /\ currentTransaction' =
         [currentTransaction EXCEPT !.contributions = Put(@, participantId, value)]
    /\ lastOp' = Op("updateContribution", participantId)
    /\ UNCHANGED <<participants, transactions, newParticipant,
                   editingTransactionId, localStorage, now>>

toggleSplitBill ==
    /\ LET isSplitBill == ~currentTransaction.isSplitBill
           contributions ==
               IF isSplitBill
               THEN recalculateSplitBill(currentTransaction.amount)
               ELSE currentTransaction.contributions
       IN  currentTransaction' =
               [currentTransaction EXCEPT !.isSplitBill = isSplitBill,
                                          !.contributions = contributions]
    /\ lastOp' = Op("toggleSplitBill", EmptyString)
    /\ UNCHANGED <<participants, transactions, newParticipant,
                   editingTransactionId, localStorage, now>>

\* a map that forgets the test on the id
ReplaceById_Every(ts, id, draft) ==
    [i \in 1..Len(ts) |-> [draft EXCEPT !.id = id]]

\* a replace that appends the draft when no transaction has the id
ReplaceById_OrAppend(ts, id, draft) ==
    IF id \in TransactionIds(ts)
    THEN [i \in 1..Len(ts) |->
             IF ts[i].id = id THEN [draft EXCEPT !.id = id] ELSE ts[i]]
    ELSE Append(ts, [draft EXCEPT !.id = id])

\* prev.map(t => t.id === id ? { ...draft, id: id } : t)
ReplaceById(ts, id, draft) ==
    [i \in 1..Len(ts) |->
        IF ts[i].id = id THEN [draft EXCEPT !.id = id] ELSE ts[i]]

\* [...prev, { ...draft, id: id }]
AppendWithId(ts, id, draft) == Append(ts, [draft EXCEPT !.id = id])

\* a template without the per-participant entries, as at construction
EmptyTemplate_NoEntries(ps) == InitialTransaction

\* the draft submitTransaction leaves behind
EmptyTemplate(ps) ==
    [id |-> EmptyString, title |-> EmptyString, amount |-> EmptyString,
     payer |-> EmptyString,
     contributions |-> [k \in ParticipantIds(ps) |-> EmptyString],
     isSplitBill |-> FALSE]

submitTransaction ==
    /\ IF Truthy(editingTransactionId)
       THEN /\ transactions' =
                 ReplaceById(transactions, editingTransactionId, currentTransaction)
            /\ editingTransactionId' = Null
            /\ now' = now
       ELSE /\ Len(transactions) < MaxTransactions
            /\ \E t \in now..MaxTime :
                 /\ now' = t
                 /\ transactions' =
                      AppendWithId(transactions, NumberToString(t), currentTransaction)
            /\ UNCHANGED editingTransactionId
    /\ currentTransaction' = EmptyTemplate(participants)
    /\ lastOp' = Op("submitTransaction", editingTransactionId)
    /\ UNCHANGED <<participants, newParticipant, localStorage>>

\* transactions.find(t => t.id === id), for an id of the ledger
Find(ts, id) == ts[CHOOSE i \in 1..Len(ts) :
                      /\ ts[i].id = id
                      /\ \A j \in 1..(i - 1) : ts[j].id # id]

\* an edit that takes the transaction out of the ledger while it is edited
editTransaction_TakesOut(id) ==
    /\ id \in TransactionIds(transactions)
    /\ currentTransaction' = Find(transactions, id)
    /\ editingTransactionId' = id
    /\ transactions' = FilterOutId(transactions, id)
    /\ lastOp' = Op("editTransaction", id)
    /\ UNCHANGED <<participants, newParticipant, localStorage, now>>

\* the Edit button exists only on the rows of the ledger
editTransaction(id) ==
    /\ id \in TransactionIds(transactions)
    /\ currentTransaction' = Find(transactions, id)
    /\ editingTransactionId' = id
    /\ lastOp' = Op("editTransaction", id)
    /\ UNCHANGED <<participants, transactions, newParticipant, localStorage, now>>

\* a delete that leaves edit mode when it removes the edit target
deleteTransaction_ClearsEdit(id) ==
    /\ id \in TransactionIds(transactions)
    /\ transactions' = FilterOutId(transactions, id)
    /\ editingTransactionId' =
         (IF editingTransactionId = id THEN Null ELSE editingTransactionId)
    /\ lastOp' = Op("deleteTransaction", id)
    /\ UNCHANGED <<participants, newParticipant, currentTransaction,
                   localStorage, now>>

deleteTransaction(id) ==
    /\ id \in TransactionIds(transactions)
    /\ transactions' = FilterOutId(transactions, id)
    /\ lastOp' = Op("deleteTransaction", id)
    /\ UNCHANGED <<participants, newParticipant, currentTransaction,
                   editingTransactionId, localStorage, now>>

\* obj[key], `undefined` read as a number (NaN) when the key is absent
Get(obj, key) == IF key \in DOMAIN obj THEN obj[key] ELSE NaN

\* a summary that adds the contributions instead of subtracting them
SummaryStep_AddsContributions(summary, t) ==
    LET credited ==
            IF Truthy(t.payer)
            THEN Put(summary, t.payer,
                     Plus(Get(summary, t.payer), OrZero(parseFloat(t.amount))))
            ELSE summary
    IN  [k \in DOMAIN credited \cup DOMAIN t.contributions |->
            IF k \in DOMAIN t.contributions
            THEN Plus(Get(credited, k), OrZero(parseFloat(t.contributions[k])))
            ELSE credited[k]]

\* the body of transactions.forEach in calculateSummary, for one transaction
SummaryStep(summary, t) ==
    LET credited ==
            IF Truthy(t.payer)
            THEN Put(summary, t.payer,
                     Plus(Get(summary, t.payer), OrZero(parseFloat(t.amount))))
            ELSE summary
    IN  [k \in DOMAIN credited \cup DOMAIN t.contributions |->
            IF k \in DOMAIN t.contributions
            THEN Minus(Get(credited, k), OrZero(parseFloat(t.contributions[k])))
            ELSE credited[k]]

RECURSIVE SummaryOver(_, _)
SummaryOver(summary, ts) ==
    IF ts = << >> THEN summary
    ELSE SummaryOver(SummaryStep(summary, Head(ts)), Tail(ts))

\* the balance summary of the current render
calculateSummary ==
    SummaryOver([k \in ParticipantIds(participants) |-> Num(0)], transactions)

\* the count of the user actions handled so far
Step == steps < MaxSteps /\ steps' = steps + 1

\* one user action at a time, each run to completion
Next ==
    \/ Step /\ \E value \in NameInputs \cup {EmptyString} : setNewParticipant(value)
    \/ Step /\ addParticipant
    \/ Step /\ \E id \in ParticipantIds(participants) : removeParticipant(id)
    \/ Step /\ \E field \in {"title", "amount", "payer"} :
         \E value \in FieldInputs(field) : updateCurrentTransaction(field, value)
    \/ Step /\ \E id \in ParticipantIds(participants) :
         \E value \in ContributionInputs : updateContribution(id, value)
    \/ Step /\ toggleSplitBill
    \/ Step /\ submitTransaction
    \/ Step /\ \E id \in TransactionIds(transactions) : editTransaction(id)
    \/ Step /\ \E id \in TransactionIds(transactions) : deleteTransaction(id)

\* the two warnings of validateContributions, each a string of one piece
ExceedMessage == <<"Total contributions exceed the transaction amount.">>

LessMessage == <<"Total contributions are less than the transaction amount.">>

\* Object.values(contributions).reduce(..., 0): a value that is not a
\* number adds 0
RECURSIVE ReduceValues(_)
ReduceValues(contributions) ==
    IF DOMAIN contributions = {} THEN 0
    ELSE LET k == CHOOSE key \in DOMAIN contributions : TRUE
             contributionAmount == parseFloat(contributions[k])
         IN  (IF contributionAmount.nan THEN 0 ELSE contributionAmount.v)
             + ReduceValues(Omit(contributions, k))

\* a validation that also warns when the contributions match the amount
validateContributions_WarnsOnEqual(transaction) ==
    LET totalAmount == OrZero(parseFloat(transaction.amount)).v
        totalContributions == ReduceValues(transaction.contributions)
    IN  IF totalContributions >= totalAmount THEN ExceedMessage
        ELSE LessMessage

validateContributions(transaction) ==
    LET totalAmount == OrZero(parseFloat(transaction.amount)).v
        totalContributions == ReduceValues(transaction.contributions)
    IN  IF totalContributions > totalAmount THEN ExceedMessage
        ELSE IF totalContributions < totalAmount THEN LessMessage
        ELSE EmptyString

(********************* the split calculator alone **************************)
\* numeric amounts for the split calculator
SplitAmounts ==
    {<<"1", "0", "0">>, <<"2", "0", "0">>, <<"7">>, <<"0", ".", "5", "0">>,
     <<"-", "7">>}

\* a participant list of n entries as an earlier session stored it
RECURSIVE StoredList(_)
StoredList(n) ==
    IF n = 0 THEN << >>
    ELSE Append(StoredList(n - 1),
                [name |-> <<"z">>, id |-> NumberToString(n - 1)])

\* the application starts from a stored list of up to MaxStored participants
InitSplit ==
    \E n \in 0..MaxStored :
        /\ participants = JSONparse(JSONstringify(StoredList(n)))
        /\ localStorage = JSONstringify(participants)
        /\ transactions = << >>
        /\ newParticipant = EmptyString
        /\ currentTransaction = InitialTransaction
        /\ editingTransactionId = Null
        /\ now = MaxStored
        /\ lastOp = Op("init", EmptyString)
        /\ steps = 0

\* the user only types amounts and toggles the equal split
NextSplit ==
    \/ Step /\ \E value \in SplitAmounts \cup {EmptyString} :
                  updateCurrentTransaction("amount", value)
    \/ Step /\ toggleSplitBill

SpecSplit == InitSplit /\ [][NextSplit]_vars

Spec == Init /\ [][Next]_vars

(***************************** claims ***************************************)
\* round(amount / count, 2) as the decimal literal the draft stores
Rounded(amount, count) == DivideToFixed2(parseFloat(amount), count)

\* the handler that made the step, and the argument it ran with
Ran(name) == lastOp'.op = name

\* C1: removeParticipant(id) in equal-split mode leaves the draft with
\* exactly one contribution per remaining participant (id is no key), each
\* round(amount / remaining count, 2); the map is empty if nobody remains.
C1_RemoveRecomputesOverRemaining ==
    [][(Ran("removeParticipant") /\ currentTransaction.isSplitBill) =>
        LET c == currentTransaction'.contributions
        IN  /\ DOMAIN c = ParticipantIds(participants')
            /\ lastOp'.arg \notin DOMAIN c
            /\ \A k \in DOMAIN c :
                 c[k] = Rounded(currentTransaction.amount, Len(participants'))]_vars

\* C2: addParticipant with a non-empty trimmed name in equal-split mode
\* gives every participant of the enlarged list the same draft
\* contribution, round(amount / new count, 2).
C2_AddRecomputesOverEnlarged ==
    [][(Ran("addParticipant") /\ Trim(newParticipant) # EmptyString
            /\ currentTransaction.isSplitBill) =>
        LET c == currentTransaction'.contributions
        IN  \A k \in ParticipantIds(participants') :
                /\ k \in DOMAIN c
                /\ c[k] = Rounded(currentTransaction.amount, Len(participants'))]_vars

\* C3: submit with an edit target that is in the ledger keeps the ledger's
\* length and order, gives the targeted transaction the draft's title,
\* amount, payer, contributions and isSplitBill under its old id, leaves
\* every other transaction as it was and clears the edit target.
C3_SubmitEditReplacesInPlace ==
    [][(Ran("submitTransaction") /\ Truthy(editingTransactionId)
            /\ editingTransactionId \in TransactionIds(transactions)) =>
        /\ Len(transactions') = Len(transactions)
        /\ \A i \in 1..Len(transactions) :
             IF transactions[i].id = editingTransactionId
             THEN /\ transactions'[i].id = editingTransactionId
                  /\ transactions'[i].title = currentTransaction.title
                  /\ transactions'[i].amount = currentTransaction.amount
                  /\ transactions'[i].payer = currentTransaction.payer
                  /\ transactions'[i].contributions = currentTransaction.contributions
                  /\ transactions'[i].isSplitBill = currentTransaction.isSplitBill
             ELSE transactions'[i] = transactions[i]
        /\ editingTransactionId' = Null]_vars

\* an edited title was submitted onto the first of two transactions
C3_Witness ==
    /\ lastOp.op = "submitTransaction"
    /\ Len(transactions) = 2
    /\ transactions[1].id = lastOp.arg
    /\ transactions[2].id # lastOp.arg
    /\ transactions[1].title # transactions[2].title
    /\ editingTransactionId = Null

\* C4: submit in create mode appends one transaction whose id differs from
\* every id already in the ledger, so the ids of the ledger are pairwise
\* distinct in every reachable state.
C4_LedgerIdsDistinct ==
    \A i, j \in 1..Len(transactions) :
        i # j => transactions[i].id # transactions[j].id

\* C5: the keys of the summary are exactly the current participant ids and
\* every value is a number, whatever removed participants the ledger names.
C5_SummaryKeysAreParticipants ==
    /\ DOMAIN calculateSummary = ParticipantIds(participants)
    /\ \A k \in DOMAIN calculateSummary : ~calculateSummary[k].nan

RECURSIVE PaidBy(_, _)
PaidBy(p, ts) ==
    IF ts = << >> THEN 0
    ELSE (IF Head(ts).payer = p THEN OrZero(parseFloat(Head(ts).amount)).v ELSE 0)
         + PaidBy(p, Tail(ts))

RECURSIVE OwedBy(_, _)
OwedBy(p, ts) ==
    IF ts = << >> THEN 0
    ELSE (IF p \in DOMAIN Head(ts).contributions
          THEN OrZero(parseFloat(Head(ts).contributions[p])).v ELSE 0)
         + OwedBy(p, Tail(ts))

\* C6: the balance of every current participant is the sum of the amounts
\* of the transactions that participant paid minus the sum of that
\* participant's contribution entries; an empty payer credits nobody.
C6_BalanceIsPaidMinusOwed ==
    LET summary == calculateSummary
    IN  \A p \in ParticipantIds(participants) :
            /\ p \in DOMAIN summary
            /\ summary[p] =
                   Num(PaidBy(p, transactions) - OwedBy(p, transactions))

\* participants [A, B], one transaction of 100 paid by A and split 50/50:
\* the summary is A: 50, B: -50
C6_Witness ==
    /\ Len(participants) = 2
    /\ Len(transactions) = 1
    /\ participants[1].id # participants[2].id
    /\ transactions[1].payer = participants[1].id
    /\ parseFloat(transactions[1].amount) = Num(10000)
    /\ DOMAIN transactions[1].contributions = ParticipantIds(participants)
    /\ \A k \in ParticipantIds(participants) :
         parseFloat(transactions[1].contributions[k]) = Num(5000)
    /\ calculateSummary[participants[1].id] = Num(5000)
    /\ calculateSummary[participants[2].id] = Num(0 - 5000)

\* C7: the participants of the list have pairwise distinct ids in every
\* reachable state.
C7_ParticipantIdsDistinct ==
    \A i, j \in 1..Len(participants) :
        i # j => participants[i].id # participants[j].id

\* C8: after every submit the draft has empty title, amount and payer,
\* isSplitBill false and one empty-string contribution per current
\* participant, and no edit target is set.
C8_SubmitResetsDraft ==
    [][Ran("submitTransaction") =>
        /\ currentTransaction'.title = EmptyString
        /\ currentTransaction'.amount = EmptyString
        /\ currentTransaction'.payer = EmptyString
        /\ currentTransaction'.isSplitBill = FALSE
        /\ DOMAIN currentTransaction'.contributions = ParticipantIds(participants')
        /\ \A k \in ParticipantIds(participants') :
             currentTransaction'.contributions[k] = EmptyString
        /\ editingTransactionId' = Null]_vars

\* a submit on the edit path, with two participants in the list
C8_Witness ==
    /\ lastOp.op = "submitTransaction"
    /\ Truthy(lastOp.arg)
    /\ Cardinality(ParticipantIds(participants)) = 2
    /\ Cardinality(DOMAIN currentTransaction.contributions) = 2
    /\ editingTransactionId = Null

\* C9: delete(id) removes the transactions with that id and nothing else,
\* keeps the order of the others and leaves the edit target, the draft and
\* the participants as they were, also when id is the edit target.
C9_DeleteOnlyFiltersLedger ==
    [][Ran("deleteTransaction") =>
        /\ transactions' =
               SelectSeq(transactions, LAMBDA t : t.id # lastOp'.arg)
        /\ editingTransactionId' = editingTransactionId
        /\ currentTransaction' = currentTransaction
        /\ participants' = participants]_vars

\* the transaction being edited was deleted, another one stayed
C9_Witness ==
    /\ lastOp.op = "deleteTransaction"
    /\ editingTransactionId = lastOp.arg
    /\ lastOp.arg \notin TransactionIds(transactions)
    /\ Len(transactions) = 1

\* C10 as claimed: after removeParticipant(id) no transaction of the ledger
\* has id as a key of its contributions map.
C10_RemoveCascadesToLedger ==
    [][Ran("removeParticipant") =>
        \A i \in 1..Len(transactions') :
            lastOp'.arg \notin DOMAIN transactions'[i].contributions]_vars

\* C10 as amended: removeParticipant(id) does not cascade to the ledger;
\* every transaction keeps exactly the keys of its contributions map, the
\* key id included.
C10_RemoveKeepsLedgerKeys ==
    [][Ran("removeParticipant") =>
        /\ Len(transactions') = Len(transactions)
        /\ \A i \in 1..Len(transactions) :
             DOMAIN transactions'[i].contributions =
                 DOMAIN transactions[i].contributions]_vars

\* a participant was removed whom a submitted transaction still names
C10_Witness ==
    /\ lastOp.op = "removeParticipant"
    /\ lastOp.arg \notin ParticipantIds(participants)
    /\ \E i \in 1..Len(transactions) :
         lastOp.arg \in DOMAIN transactions[i].contributions

\* C11: removeParticipant(id) leaves the ledger as it was (the entries for
\* id included) and leaves the draft's title, amount, payer and isSplitBill
\* as they were; a draft payer equal to id stays.
C11_RemoveLeavesLedgerAndDraftFields ==
    [][Ran("removeParticipant") =>
        /\ transactions' = transactions
        /\ currentTransaction'.title = currentTransaction.title
        /\ currentTransaction'.amount = currentTransaction.amount
        /\ currentTransaction'.payer = currentTransaction.payer
        /\ currentTransaction'.isSplitBill = currentTransaction.isSplitBill]_vars

\* the payer of the draft was removed, and a submitted transaction has an
\* entry for the removed participant
C11_Witness ==
    /\ lastOp.op = "removeParticipant"
    /\ lastOp.arg \notin ParticipantIds(participants)
    /\ currentTransaction.payer = lastOp.arg
    /\ \E i \in 1..Len(transactions) :
         lastOp.arg \in DOMAIN transactions[i].contributions

\* e is a literal with two fraction digits whose value is a hundredth
\* nearest to hundredths / count
IsRoundedQuotient(e, hundredths, count) ==
    /\ Len(e) >= 4
    /\ e[Len(e) - 2] = "."
    /\ IsDigit(e[Len(e) - 1]) /\ IsDigit(e[Len(e)])
    /\ ~parseFloat(e).nan
    /\ LET d == count * parseFloat(e).v - hundredths
       IN  2 * (IF d < 0 THEN 0 - d ELSE d) <= count

\* C12: for a numeric amount, recalculateSplitBill returns the empty
\* mapping for an empty participant list and otherwise one entry per
\* participant id, every entry the same literal round(amount / count, 2).
C12_SplitIsRoundedQuotientForAll ==
    \A amount \in SplitAmounts :
        LET split == recalculateSplitBill(amount)
        IN  IF participants = << >> THEN DOMAIN split = {}
            ELSE /\ DOMAIN split = ParticipantIds(participants)
                 /\ \A k \in DOMAIN split :
                      IsRoundedQuotient(split[k], parseFloat(amount).v,
                                        Len(participants))
                 /\ \A k1, k2 \in DOMAIN split : split[k1] = split[k2]

\* 200 split over three participants is 66.67 each: the shares add up to
\* 200.01 and nobody's share is adjusted
C12_Witness ==
    /\ Len(participants) = 3
    /\ currentTransaction.isSplitBill
    /\ currentTransaction.amount = <<"2", "0", "0">>
    /\ currentTransaction.contributions = recalculateSplitBill(<<"2", "0", "0">>)
    /\ \A k \in ParticipantIds(participants) :
         currentTransaction.contributions[k] = <<"6", "6", ".", "6", "7">>

\* the step turned equal split on, or changed the amount while it was on,
\* and the amount it recalculated from is empty or not a number
RecalculatedFromNonNumeric ==
    \/ /\ Ran("toggleSplitBill")
       /\ ~currentTransaction.isSplitBill
       /\ parseFloat(currentTransaction.amount).nan
    \/ /\ Ran("updateCurrentTransaction")
       /\ lastOp'.field = "amount"
       /\ currentTransaction.isSplitBill
       /\ parseFloat(lastOp'.arg).nan

\* C13: a recalculation from an empty or non-numeric amount, with at least
\* one participant, gives every participant the contribution "0.00".
C13_NonNumericAmountSplitsAsZero ==
    [][(RecalculatedFromNonNumeric /\ participants # << >>) =>
        \A k \in ParticipantIds(participants) :
            /\ k \in DOMAIN currentTransaction'.contributions
            /\ currentTransaction'.contributions[k] = <<"0", ".", "0", "0">>]_vars

\* the hundredths a string counts for: 0 when it is not a number
Counted(str) == IF parseFloat(str).nan THEN 0 ELSE parseFloat(str).v

\* the contributions under the ids "0" .. "n", added up id by id
RECURSIVE TotalUpTo(_, _)
TotalUpTo(contributions, n) ==
    (IF NumberToString(n) \in DOMAIN contributions
     THEN Counted(contributions[NumberToString(n)]) ELSE 0)
    + (IF n = 0 THEN 0 ELSE TotalUpTo(contributions, n - 1))

\* C14: validateContributions returns the empty string exactly when the
\* parsed contributions add up to the parsed amount, the "exceed" message
\* exactly when they add up to more and the "less than" message exactly
\* when they add up to less (checked on the draft, which the form validates).
C14_ValidationComparesTotals ==
    LET total == TotalUpTo(currentTransaction.contributions, MaxTime)
        amount == Counted(currentTransaction.amount)
        message == validateContributions(currentTransaction)
    IN  /\ DOMAIN currentTransaction.contributions
              \subseteq {NumberToString(i) : i \in 0..MaxTime}
        /\ (message = EmptyString) <=> (total = amount)
        /\ (message = ExceedMessage) <=> (total > amount)
        /\ (message = LessMessage) <=> (total < amount)

\* two contributions of 50 typed in against an amount of 100: no warning
C14_Witness ==
    /\ ~currentTransaction.isSplitBill
    /\ Counted(currentTransaction.amount) = 10000
    /\ Cardinality(DOMAIN currentTransaction.contributions) = 2
    /\ \A k \in DOMAIN currentTransaction.contributions :
         currentTransaction.contributions[k] = <<"5", "0">>
    /\ validateContributions(currentTransaction) = EmptyString

\* C15: the key "participants" holds the serialization of the current
\* participant list, and starting the application from the stored value
\* gives the same list: same ids, same names, same order.
C15_StoredListRoundTrips ==
    /\ localStorage = JSONstringify(participants)
    /\ LoadParticipants(localStorage) = participants

\* "a" was added to the stored participant z" : the text under the key is
\* [{"name":"z\"","id":"0"},{"name":"a","id":"1"}]
C15_Witness ==
    /\ lastOp.op = "addParticipant"
    /\ Len(participants) = 2
    /\ participants[1].name = <<"z", "\"">>
    /\ participants[2].id = <<"1">>
    /\ localStorage =
       <<"[", "{", "\"", "n", "a", "m", "e", "\"", ":", "\"", "z", "\\",
         "\"", "\"", ",", "\"", "i", "d", "\"", ":", "\"", "0", "\"", "}",
         ",", "{", "\"", "n", "a", "m", "e", "\"", ":", "\"", "a", "\"",
         ",", "\"", "i", "d", "\"", ":", "\"", "1", "\"", "}", "]">>

EqualSplit(amount, ps) ==
    [k \in ParticipantIds(ps) |->
        DivideToFixed2(OrZero(parseFloat(amount)), Len(ps))]

\* C17: toggleSplitBill flips isSplitBill and changes nothing else but the
\* contributions: turned on, they become the equal split of the draft's
\* amount over the current participants; turned off, they stay as they were.
C17_ToggleFlipsAndRecalculates ==
    [][Ran("toggleSplitBill") =>
        /\ currentTransaction'.isSplitBill = ~currentTransaction.isSplitBill
        /\ currentTransaction'.id = currentTransaction.id
        /\ currentTransaction'.title = currentTransaction.title
        /\ currentTransaction'.amount = currentTransaction.amount
        /\ currentTransaction'.payer = currentTransaction.payer
        /\ UNCHANGED <<participants, transactions, newParticipant,
                       editingTransactionId, localStorage>>
        /\ currentTransaction'.contributions =
               (IF currentTransaction'.isSplitBill
                THEN EqualSplit(currentTransaction.amount, participants')
                ELSE currentTransaction.contributions)]_vars

\* C18: whenever the draft is in equal-split mode, its contributions have
\* exactly the current participant ids as keys and every value is
\* round(draft amount / current participant count, 2).
C18_EqualSplitDraftIsCurrent ==
    currentTransaction.isSplitBill =>
        /\ DOMAIN currentTransaction.contributions = ParticipantIds(participants)
        /\ \A k \in DOMAIN currentTransaction.contributions :
             currentTransaction.contributions[k] =
                 Rounded(currentTransaction.amount, Len(participants))

\* C19: submit with an edit target that is no longer in the ledger creates
\* no transaction and replaces none: the ledger stays as it was, the draft
\* is reset to the empty template and the edit target is cleared.
C19_SubmitOfDeletedTargetDiscards ==
    [][(Ran("submitTransaction") /\ Truthy(editingTransactionId)
            /\ editingTransactionId \notin TransactionIds(transactions)) =>
        /\ transactions' = transactions
        /\ currentTransaction'.id = EmptyString
        /\ currentTransaction'.title = EmptyString
        /\ currentTransaction'.amount = EmptyString
        /\ currentTransaction'.payer = EmptyString
        /\ currentTransaction'.isSplitBill = FALSE
        /\ DOMAIN currentTransaction'.contributions = ParticipantIds(participants)
        /\ \A k \in ParticipantIds(participants) :
             currentTransaction'.contributions[k] = EmptyString
        /\ editingTransactionId' = Null]_vars

\* edit, delete of the edited row, submit: one other transaction is left,
\* the edit target is gone from the ledger and the draft is empty
C19_Witness ==
    /\ lastOp.op = "submitTransaction"
    /\ Truthy(lastOp.arg)
    /\ lastOp.arg \notin TransactionIds(transactions)
    /\ Len(transactions) = 1
    /\ editingTransactionId = Null
    /\ currentTransaction.title = EmptyString

====
